---- MODULE Spec2Model ----
(***************************************************************************)
(* Model of the rule-based question-answering responder of line-bot-ai:   *)
(* src/bot_core.py (query resolution) and src/app.py (webhook glue).      *)
(*                                                                         *)
(* Text is a sequence of characters.  A character is written as a short   *)
(* ASCII name:                                                             *)
(*   "0".."9"  digits            "nian"  the year character (U+5E74)      *)
(*   "du"      U+5EA6            " "     ASCII space                      *)
(*   "fw"      full-width space  "nl"    newline                          *)
(*   ","       a character of the punctuation class of _PUNCT_RE          *)
(*   "-"       hyphen (range separator, also the minus sign)              *)
(*   "zhi"     the range word (U+81F3 / U+5230)                           *)
(*   "a","b","c","d","e","f","g","h","x","y","z"  topic characters         *)
(*   "ren","shu"   the two characters of the people-count suffix          *)
(*   "bi","jiao"   the two characters of the analysis keyword U+6BD4 U+8F03*)
(*   "hua","yi4","cha","zeng","jian","qu","shi"  the other characters of  *)
(*                 the analysis keywords (U+5316 U+7570 U+5DEE U+589E     *)
(*                 U+6E1B U+8DA8 U+52E2)                                  *)
(*   "shang","yi","bian","dong"  rest of the change cue of a comparison   *)
(* Fixed phrases of the program that are only ever produced or tested as  *)
(* a whole are one character each (upper-case names, see the Phrases      *)
(* section); total markers "zongji"/"zongshu"/"heji" likewise.            *)
(***************************************************************************)
EXTENDS Integers, Sequences, FiniteSets, TLC

VARIABLES
    _ENTRIES,      \* the loaded entries, in file order
    _EXACT_MAP,    \* normalized keyword -> entry
    event,         \* the text of the webhook event being handled, NoEvent when idle
    user_text,     \* the text the last reply was built for
    reply_text,    \* the last reply sent, NoReply when none
    error,         \* the exception that ended the last handler, "None" when it returned
    keyword_norm,  \* arguments and result of a call of _coverage_ratio
    user_norm,
    ratio

vars == <<_ENTRIES, _EXACT_MAP, event, user_text, reply_text, error,
          keyword_norm, user_norm, ratio>>

----------------------------------------------------------------------------
(* Generic sequence helpers (Python built-ins used by the code)            *)

\* Python's None where a string is expected, a value no text equals
NoneText == <<"NoneType">>

\* None where a year string is expected (a year string is never empty)
NoYear == <<>>

\* None where an Entry is expected
NoEntry == [none |-> TRUE]

\* (text or "")
OrEmpty(text) == IF text = NoneText THEN <<>> ELSE text

Digits == {"0", "1", "2", "3", "4", "5", "6", "7", "8", "9"}

\* str.isspace / the regex class \s
IsSpace(c) == c \in {" ", "fw", "nl"}

IsDigit(c) == c \in Digits

Min(a, b) == IF a <= b THEN a ELSE b

Max(a, b) == IF a >= b THEN a ELSE b

Abs(n) == IF n < 0 THEN -n ELSE n

\* s[i:] (1-based, i may be Len(s)+1)
From(s, i) == SubSeq(s, i, Len(s))

RECURSIVE LStrip(_)
LStrip(s) == IF s # <<>> /\ IsSpace(Head(s)) THEN LStrip(Tail(s)) ELSE s

RECURSIVE RStrip(_)
RStrip(s) ==
    IF s # <<>> /\ IsSpace(s[Len(s)]) THEN RStrip(SubSeq(s, 1, Len(s) - 1)) ELSE s

\* str.strip()
Strip(s) == LStrip(RStrip(s))

\* s.startswith(p)
StartsWith(s, p) == Len(s) >= Len(p) /\ SubSeq(s, 1, Len(p)) = p

\* s.endswith(p)
EndsWith(s, p) == Len(s) >= Len(p) /\ SubSeq(s, Len(s) - Len(p) + 1, Len(s)) = p

\* p in s
Contains(s, p) == \E i \in 1..(Len(s) - Len(p) + 1) : SubSeq(s, i, i + Len(p) - 1) = p

\* str.replace(a, b): leftmost non-overlapping occurrences, a non-empty
RECURSIVE Replace(_, _, _)
Replace(s, a, b) ==
    IF s = <<>> THEN <<>>
    ELSE IF StartsWith(s, a) THEN b \o Replace(From(s, Len(a) + 1), a, b)
    ELSE <<Head(s)>> \o Replace(Tail(s), a, b)

\* number of leading whitespace characters of s[i:]
RECURSIVE SpacesAt(_, _)
SpacesAt(s, i) == IF i <= Len(s) /\ IsSpace(s[i]) THEN 1 + SpacesAt(s, i + 1) ELSE 0

\* \d{3} at position i
ThreeDigitsAt(s, i) ==
    i >= 1 /\ i + 2 <= Len(s) /\ IsDigit(s[i]) /\ IsDigit(s[i + 1]) /\ IsDigit(s[i + 2])

DigitVal(c) ==
    CASE c = "0" -> 0 [] c = "1" -> 1 [] c = "2" -> 2 [] c = "3" -> 3 [] c = "4" -> 4
      [] c = "5" -> 5 [] c = "6" -> 6 [] c = "7" -> 7 [] c = "8" -> 8 [] c = "9" -> 9

DigitChar(n) ==
    CASE n = 0 -> "0" [] n = 1 -> "1" [] n = 2 -> "2" [] n = 3 -> "3" [] n = 4 -> "4"
      [] n = 5 -> "5" [] n = 6 -> "6" [] n = 7 -> "7" [] n = 8 -> "8" [] n = 9 -> "9"

\* int(s) for a string of digits
RECURSIVE ParseInt(_)
ParseInt(s) ==
    IF s = <<>> THEN 0
    ELSE 10 * ParseInt(SubSeq(s, 1, Len(s) - 1)) + DigitVal(s[Len(s)])

\* str(n) for n >= 0
RECURSIVE IntToStr(_)
IntToStr(n) ==
    IF n < 10 THEN <<DigitChar(n)>>
    ELSE Append(IntToStr(n \div 10), DigitChar(n % 10))

----------------------------------------------------------------------------
(* Regular expressions of the code.  MatchLen(pat, s, i) is the length of  *)
(* the match of pattern pat anchored at position i of s, 0 when there is   *)
(* none (no pattern of the code matches the empty string).                 *)

\* _YEAR_RE  (\d{3})\s*nian
YearReLen(s, i) ==
    IF ThreeDigitsAt(s, i)
    THEN LET w == SpacesAt(s, i + 3)
         IN  IF i + 3 + w <= Len(s) /\ s[i + 3 + w] = "nian" THEN 3 + w + 1 ELSE 0
    ELSE 0

\* (\d{3})\s*SEP\s*(\d{3})\s*nian?   with SEP given by the predicate on s[..]
RangeLenWith(s, i, seps) ==
    IF ThreeDigitsAt(s, i)
    THEN LET w1 == SpacesAt(s, i + 3)
             p  == i + 3 + w1
         IN  IF p <= Len(s) /\ s[p] \in seps
             THEN LET w2 == SpacesAt(s, p + 1)
                      q  == p + 1 + w2
                  IN  IF ThreeDigitsAt(s, q)
                      THEN LET w3 == SpacesAt(s, q + 3)
                               r  == q + 3 + w3
                           IN  (r - i) + (IF r <= Len(s) /\ s[r] = "nian" THEN 1 ELSE 0)
                      ELSE 0
             ELSE 0
    ELSE 0

\* position of the second \d{3} group of a range match at i
RangeSecondAt(s, i) ==
    LET p == i + 3 + SpacesAt(s, i + 3) IN p + 1 + SpacesAt(s, p + 1)

\* (\d{3})\s*nian?
YearOptLen(s, i) ==
    IF ThreeDigitsAt(s, i)
    THEN LET w == SpacesAt(s, i + 3)
         IN  3 + w + (IF i + 3 + w <= Len(s) /\ s[i + 3 + w] = "nian" THEN 1 ELSE 0)
    ELSE 0

MatchLen(pat, s, i) ==
    CASE pat = "YEAR_RE"    -> YearReLen(s, i)
      [] pat = "D3"         -> IF ThreeDigitsAt(s, i) THEN 3 ELSE 0
      [] pat = "RANGE_DASH" -> RangeLenWith(s, i, {"-"})
      [] pat = "RANGE_WORD" -> RangeLenWith(s, i, {"zhi"})
      [] pat = "YEAR_OPT"   -> YearOptLen(s, i)

\* re.search: start of the leftmost match, 0 when there is none
RECURSIVE SearchFrom(_, _, _)
SearchFrom(pat, s, i) ==
    IF i > Len(s) THEN 0
    ELSE IF MatchLen(pat, s, i) > 0 THEN i
    ELSE SearchFrom(pat, s, i + 1)

Search(pat, s) == SearchFrom(pat, s, 1)

\* re.sub(pat, "", s)
RECURSIVE SubFrom(_, _, _)
SubFrom(pat, s, i) ==
    IF i > Len(s) THEN <<>>
    ELSE LET n == MatchLen(pat, s, i)
         IN  IF n > 0 THEN SubFrom(pat, s, i + n)
             ELSE <<s[i]>> \o SubFrom(pat, s, i + 1)

Sub(pat, s) == SubFrom(pat, s, 1)

\* re.findall(pat, s) for a pattern with one \d{3} group at its start
RECURSIVE FindAllFrom(_, _, _)
FindAllFrom(pat, s, i) ==
    IF i > Len(s) THEN <<>>
    ELSE LET n == MatchLen(pat, s, i)
         IN  IF n > 0 THEN <<SubSeq(s, i, i + 2)>> \o FindAllFrom(pat, s, i + n)
             ELSE FindAllFrom(pat, s, i + 1)

FindAll(pat, s) == FindAllFrom(pat, s, 1)

----------------------------------------------------------------------------
(* Settings                                                                *)

\* thresholds in hundredths: 0.8 and 0.6
COVERAGE_THRESHOLD == 80

SUGGEST_THRESHOLD == 60

SUGGEST_TOPN == 3

MAX_YEAR_SPAN == 10

MIN_QUERY_LEN == 8

ANALYSIS_KEYWORDS ==
    << <<"bi", "jiao">>, <<"bian", "hua">>, <<"yi4", "dong">>,
       <<"cha", "yi4">>, <<"zeng", "jian">>, <<"qu", "shi">> >>

_REPLACEMENTS ==
    << << <<"nian", "du">>, <<"nian">> >>,
       << <<"nian", " ", "du">>, <<"nian">> >>,
       << <<"fw">>, <<>> >> >>

----------------------------------------------------------------------------
(* Text normalisation and year extraction                                   *)

\* _PUNCT_RE.sub("", t): drop every punctuation / whitespace character
RECURSIVE DropPunct(_)
DropPunct(s) ==
    IF s = <<>> THEN <<>>
    ELSE IF Head(s) = "," \/ IsSpace(Head(s)) THEN DropPunct(Tail(s))
    ELSE <<Head(s)>> \o DropPunct(Tail(s))

RECURSIVE ApplyReplacements(_, _)
ApplyReplacements(t, i) ==
    IF i > Len(_REPLACEMENTS) THEN t
    ELSE ApplyReplacements(Replace(t, _REPLACEMENTS[i][1], _REPLACEMENTS[i][2]), i + 1)

_normalize(text) ==
    IF text = NoneText THEN <<>>
    ELSE DropPunct(ApplyReplacements(Strip(text), 1))

\* the match object of _extract_year: m of _YEAR_RE, else m2 of the bare \d{3}
YearAt(text, m, m2) ==
    IF m > 0 THEN SubSeq(text, m, m + 2)
    ELSE IF m2 > 0 THEN SubSeq(text, m2, m2 + 2)
    ELSE NoYear

\* first year: \d{3}\s*nian, else the first bare \d{3}; NoYear when absent
_extract_year(text) == YearAt(text, Search("YEAR_RE", text), Search("D3", text))

_strip_year(text_norm) == Sub("D3", Sub("YEAR_RE", text_norm))

\* ascending list of the elements of a finite set of integers
RECURSIVE SortedSeq(_)
SortedSeq(S) ==
    IF S = {} THEN <<>>
    ELSE LET m == CHOOSE x \in S : \A y \in S : x <= y
         IN  <<m>> \o SortedSeq(S \ {m})

\* list(range(lo, hi + 1))
Range(lo, hi) == [i \in 1..(hi - lo + 1) |-> lo + i - 1]

\* m = re.search(dash range) or re.search(word range): start of the match, 0 for none
RangeSearch(dash, word) == IF dash > 0 THEN dash ELSE word

\* the years of a range y1..y2, <<>> when the span exceeds MAX_YEAR_SPAN
RangeYears(y1, y2) ==
    IF Max(y1, y2) - Min(y1, y2) + 1 > MAX_YEAR_SPAN THEN <<>>
    ELSE Range(Min(y1, y2), Max(y1, y2))

\* sorted({int(y) for y in years})
UniqueYears(years) == SortedSeq({ParseInt(years[i]) : i \in 1..Len(years)})

ExtractYearsAt(s, m) ==
    IF m > 0
    THEN RangeYears(ParseInt(SubSeq(s, m, m + 2)),
                    ParseInt(SubSeq(s, RangeSecondAt(s, m), RangeSecondAt(s, m) + 2)))
    ELSE UniqueYears(FindAll("YEAR_OPT", s))

\* the years of a multi-year query, ascending; <<>> for none or a range that is too long
extract_years(text) ==
    ExtractYearsAt(OrEmpty(text),
                   RangeSearch(Search("RANGE_DASH", OrEmpty(text)),
                               Search("RANGE_WORD", OrEmpty(text))))

\* the topic left when every year expression is removed
strip_year_expression(text) ==
    Strip(Sub("D3", Sub("YEAR_RE", Sub("RANGE_WORD", Sub("RANGE_DASH", OrEmpty(text))))))

\* any(k in t for k in ANALYSIS_KEYWORDS)
_wants_summary(user) ==
    \E i \in 1..Len(ANALYSIS_KEYWORDS) : Contains(OrEmpty(user), ANALYSIS_KEYWORDS[i])

RECURSIVE StripKeywordsFrom(_, _)
StripKeywordsFrom(t, i) ==
    IF i > Len(ANALYSIS_KEYWORDS) THEN t
    ELSE StripKeywordsFrom(Replace(t, ANALYSIS_KEYWORDS[i], <<>>), i + 1)

_strip_analysis_keywords(text) == Strip(StripKeywordsFrom(OrEmpty(text), 1))

----------------------------------------------------------------------------
(* The knowledge index                                                      *)

\* the Entry of a row with keyword kw_raw whose normalized keyword is kw_norm
EntryOf(kw_raw, kw_norm, desc, unit, src) ==
    [keyword             |-> kw_raw,
     keyword_norm        |-> kw_norm,
     keyword_norm_noyear |-> _strip_year(kw_norm),
     year                |-> _extract_year(kw_raw),
     description         |-> desc,
     unit                |-> unit,
     source_url          |-> src]

Entry(kw_raw, desc, unit, src) == EntryOf(kw_raw, _normalize(kw_raw), desc, unit, src)

\* one row of the loop of _load_training: <<>> when the row is skipped
LoadRow(kw_raw, desc, unit, src) ==
    IF kw_raw = <<>> \/ desc = <<>> THEN <<>> ELSE <<Entry(kw_raw, desc, unit, src)>>

\* the rows _load_training keeps, as entries, in file order
RECURSIVE LoadEntries(_)
LoadEntries(rows) ==
    IF rows = <<>> THEN <<>>
    ELSE LoadRow(Strip(Head(rows).keywords), Strip(Head(rows).description),
                 Strip(Head(rows).unit), Strip(Head(rows).source_url))
             \o LoadEntries(Tail(rows))

\* exact_map[kw_norm] = e in file order: the last entry of a key wins
ExactMapOf(entries) ==
    [k \in {entries[i].keyword_norm : i \in 1..Len(entries)} |->
        entries[CHOOSE i \in 1..Len(entries) :
                    /\ entries[i].keyword_norm = k
                    /\ \A j \in (i + 1)..Len(entries) : entries[j].keyword_norm # k]]

\* description, newline, URL when the entry has a source URL
_format_answer(entry) ==
    IF entry.source_url # <<>> THEN entry.description \o <<"nl">> \o entry.source_url
    ELSE entry.description

----------------------------------------------------------------------------
(* Matching and scoring.  The operators below read the index through the    *)
(* parameters exact / entries so that they can be applied to any index.     *)

\* _EXACT_MAP.get(key), NoEntry when absent or the key is empty
ExactGet(exact, key) ==
    IF key = <<>> THEN NoEntry
    ELSE IF key \in DOMAIN exact THEN exact[key] ELSE NoEntry

_match_by_exact(exact, user) == ExactGet(exact, _normalize(user))

\* Counter(s)[ch]
Count(s, ch) == Cardinality({i \in 1..Len(s) : s[i] = ch})

\* the distinct characters of s: the keys of Counter(s)
Chars(s) == {s[i] : i \in 1..Len(s)}

\* faulty variant of HitOf: the count in the query, not capped by the keyword's count
HitOfUncapped(ch, kw, us) == Count(us, ch)

\* min(cnt, us.get(ch, 0)) for the item (ch, cnt) of the keyword's counter
HitOf(ch, kw, us) == Min(Count(kw, ch), Count(us, ch))

\* sum(... for ch, cnt in kw.items())
RECURSIVE SumOver(_, _, _)
SumOver(S, kw, us) ==
    IF S = {} THEN 0
    ELSE LET ch == CHOOSE x \in S : TRUE
         IN  HitOf(ch, kw, us) + SumOver(S \ {ch}, kw, us)

\* the ratio hit / max(1, len(keyword_norm)) as the pair <<hit, max(1, len)>>
_coverage_ratio(kw_norm, us_norm) ==
    IF kw_norm = <<>> THEN <<0, 1>>
    ELSE <<SumOver(Chars(kw_norm), kw_norm, us_norm), Max(1, Len(kw_norm))>>

\* r >= t / 100 for a ratio r = <<hit, n>>
RatioAtLeast(r, t) == 100 * r[1] >= t * r[2]

\* comparison of two ratios
RatioLess(r1, r2) == r1[1] * r2[2] < r2[1] * r1[2]

\* sort key (r, tie) of x strictly greater than that of y
KeyGreater(x, y) ==
    \/ RatioLess(y[1], x[1])
    \/ (~RatioLess(x[1], y[1]) /\ ~RatioLess(y[1], x[1]) /\ x[2] > y[2])

\* list.sort(key=(r, tie), reverse=True): stable, descending
RECURSIVE InsertRanked(_, _)
InsertRanked(sorted, x) ==
    IF sorted = <<>> THEN <<x>>
    ELSE IF KeyGreater(x, Head(sorted)) THEN <<x>> \o sorted
    ELSE <<Head(sorted)>> \o InsertRanked(Tail(sorted), x)

RECURSIVE SortRanked(_, _)
SortRanked(done, todo) ==
    IF todo = <<>> THEN done
    ELSE SortRanked(InsertRanked(done, Head(todo)), Tail(todo))

\* [e for e in candidates if e.year == user_year]
RECURSIVE FilterYear(_, _)
FilterYear(entries, y) ==
    IF entries = <<>> THEN <<>>
    ELSE IF Head(entries).year = y THEN <<Head(entries)>> \o FilterYear(Tail(entries), y)
    ELSE FilterYear(Tail(entries), y)

\* faulty variant of CandidatesOf: every entry is a candidate, whatever its year
CandidatesOfAnyYear(entries, user_year, use_year_filter) == entries

\* the candidates of _rank_matches for the year user_year of the query
CandidatesOf(entries, user_year, use_year_filter) ==
    IF user_year # NoYear /\ use_year_filter THEN FilterYear(entries, user_year)
    ELSE entries

Candidates(entries, user, use_year_filter) ==
    CandidatesOf(entries, IF use_year_filter THEN _extract_year(user) ELSE NoYear,
                 use_year_filter)

\* the (ratio, tie, entry) triples of the candidates c against us, sorted
Ranked(c, us) ==
    IF us = <<>> THEN <<>>
    ELSE SortRanked(<<>>, [i \in 1..Len(c) |->
             <<_coverage_ratio(c[i].keyword_norm, us), Len(c[i].keyword_norm), c[i]>>])

_rank_matches(entries, user, use_year_filter) ==
    Ranked(Candidates(entries, user, use_year_filter), _normalize(user))

\* the triples of every entry's year-less keyword against the year-less query
RankedNoYear(entries, noyear) ==
    IF noyear = <<>> THEN <<>>
    ELSE SortRanked(<<>>, [i \in 1..Len(entries) |->
             <<_coverage_ratio(entries[i].keyword_norm_noyear, noyear),
               Len(entries[i].keyword_norm_noyear), entries[i]>>])

_rank_matches_noyear(entries, user) == RankedNoYear(entries, _strip_year(_normalize(user)))

----------------------------------------------------------------------------
(* Phrases: fixed texts of the program, each one character of the model     *)

\* DEFAULT_REPLY, the apology
DEFAULT_REPLY == <<"DEFAULT_REPLY">>

\* the prefix _is_success_reply tests, then the rest of the too-short guidance
TOO_SHORT_PREFIX == <<"ENTER_MORE_KEYWORDS">>

TOO_SHORT_REPLY == TOO_SHORT_PREFIX \o <<"KEYWORD_EXAMPLES">>

\* the add-the-year prompt
ADD_YEAR_PREFIX == <<"YEAR_SEEMS_MISSING">>

ADD_YEAR_REPLY == ADD_YEAR_PREFIX \o <<"nl", "ADD_YEAR_AND_RETRY">>

\* the head line of the suggestion list
SUGGEST_PREFIX == <<"DID_YOU_MEAN">>

SUGGEST_HINT == <<"ADD_MORE_KEYWORDS_HINT">>

RESULT_HEADER == <<"RESULT_HEADER">>

SURVEY_URL == <<"SURVEY_URL">>

SURVEY_FOOTER_SUCCESS ==
    <<"SURVEY_SUCCESS_HEAD">> \o SURVEY_URL \o <<"nl", "SURVEY_SUCCESS_NOTE">>

SURVEY_FOOTER_FALLBACK == <<"SURVEY_FALLBACK_HEAD">> \o SURVEY_URL

\* the line shown when no year of a multi-year query resolves
ALL_MISSING == <<"NO_DATA_IN_RANGE">>

TotalMarkers == {"zongji", "zongshu", "heji"}

\* the first character of a URL (https?://) ; SURVEY_URL is a URL too
UrlStarts == {"http", "SURVEY_URL"}

----------------------------------------------------------------------------
(* Single-year query                                                        *)

\* "\n".join(lines)
RECURSIVE JoinWith(_, _)
JoinWith(lines, sep) ==
    IF lines = <<>> THEN <<>>
    ELSE IF Len(lines) = 1 THEN lines[1]
    ELSE lines[1] \o sep \o JoinWith(Tail(lines), sep)

\* ranked[:SUGGEST_TOPN] rendered as "- keyword" lines
SuggestionLines(ranked) ==
    JoinWith([i \in 1..Min(Len(ranked), SUGGEST_TOPN) |-> <<"-", " ">> \o ranked[i][3].keyword],
             <<"nl">>)

SUGGEST_REPLY(ranked) ==
    SUGGEST_PREFIX \o <<"nl">> \o SuggestionLines(ranked) \o <<"nl">> \o SUGGEST_HINT

\* the return statement build_reply_single_year leaves by
SingleYearBranch(text, us, user_year, ranked_noyear, e_exact, ranked) ==
    IF text = <<>> THEN "empty"
    ELSE IF /\ user_year = NoYear
            /\ ranked_noyear # <<>>
            /\ RatioAtLeast(ranked_noyear[1][1], COVERAGE_THRESHOLD)
         THEN "add_year"
    ELSE IF Len(us) < MIN_QUERY_LEN THEN "too_short"
    ELSE IF e_exact # NoEntry THEN "exact"
    ELSE IF ranked # <<>> /\ RatioAtLeast(ranked[1][1], COVERAGE_THRESHOLD) THEN "confident"
    ELSE IF ranked # <<>> /\ RatioAtLeast(ranked[1][1], SUGGEST_THRESHOLD) THEN "suggest"
    ELSE "not_found"

\* the value returned at that return statement
SingleYearReply(branch, e_exact, ranked) ==
    CASE branch = "empty"     -> DEFAULT_REPLY
      [] branch = "add_year"  -> ADD_YEAR_REPLY
      [] branch = "too_short" -> TOO_SHORT_REPLY
      [] branch = "exact"     -> _format_answer(e_exact)
      [] branch = "confident" -> _format_answer(ranked[1][3])
      [] branch = "suggest"   -> SUGGEST_REPLY(ranked)
      [] branch = "not_found" -> DEFAULT_REPLY

SingleYearDecide(text, us, user_year, ranked_noyear, e_exact, ranked) ==
    SingleYearReply(SingleYearBranch(text, us, user_year, ranked_noyear, e_exact, ranked),
                    e_exact, ranked)

SingleYearOf(exact, entries, text) ==
    SingleYearDecide(text, _normalize(text), _extract_year(text),
                     _rank_matches_noyear(entries, text), _match_by_exact(exact, text),
                     _rank_matches(entries, text, TRUE))

build_reply_single_year(exact, entries, user) ==
    SingleYearOf(exact, entries, Strip(OrEmpty(user)))

----------------------------------------------------------------------------
(* Multi-year query                                                         *)

GetEntryOf(text, e_exact, ranked) ==
    IF text = <<>> THEN NoEntry
    ELSE IF e_exact # NoEntry THEN e_exact
    ELSE IF ranked # <<>> /\ RatioAtLeast(ranked[1][1], COVERAGE_THRESHOLD) THEN ranked[1][3]
    ELSE NoEntry

GetEntryText(exact, entries, text) ==
    GetEntryOf(text, _match_by_exact(exact, text), _rank_matches(entries, text, TRUE))

\* the entry of a query that already holds its year, NoEntry when none
_get_entry_for_year_query(exact, entries, query_text) ==
    GetEntryText(exact, entries, Strip(OrEmpty(query_text)))

\* length of the run of [\d,] characters that starts at i
RECURSIVE NumRunAt(_, _)
NumRunAt(s, i) ==
    IF i <= Len(s) /\ (IsDigit(s[i]) \/ s[i] = ",") THEN 1 + NumRunAt(s, i + 1) ELSE 0

\* position of group 2 when the marker at i is followed by \s* : after the spaces
AfterMarker(s, i) == i + 1 + SpacesAt(s, i + 1)

\* (marker)\s*([\d,]+) anchored at i: the position of group 2, 0 when no match
TotalGroupAt(s, i) ==
    IF i <= Len(s) /\ s[i] \in TotalMarkers /\ NumRunAt(s, AfterMarker(s, i)) > 0
    THEN AfterMarker(s, i)
    ELSE 0

RECURSIVE TotalSearch(_, _)
TotalSearch(s, i) ==
    IF i > Len(s) THEN 0
    ELSE IF TotalGroupAt(s, i) > 0 THEN i
    ELSE TotalSearch(s, i + 1)

RECURSIVE DropCommas(_)
DropCommas(s) ==
    IF s = <<>> THEN <<>>
    ELSE IF Head(s) = "," THEN DropCommas(Tail(s))
    ELSE <<Head(s)>> \o DropCommas(Tail(s))

NoTotal == [kind |-> "None", value |-> 0]

\* int("") raises ValueError
TotalRaises == [kind |-> "ValueError", value |-> 0]

\* int(m.group(2).replace(",", ""))
IntOf(digits) ==
    IF digits = <<>> THEN TotalRaises ELSE [kind |-> "int", value |-> ParseInt(digits)]

\* group 2 of the match whose group 2 starts at g
TotalGroup(s, g) == SubSeq(s, g, g + NumRunAt(s, g) - 1)

TotalAt(desc_text, m) ==
    IF desc_text = <<>> \/ m = 0 THEN NoTotal
    ELSE IntOf(DropCommas(TotalGroup(desc_text, TotalGroupAt(desc_text, m))))

\* the number after a total marker: an int, None, or the ValueError of int("")
_extract_total_value(desc_text) == TotalAt(desc_text, TotalSearch(desc_text, 1))

\* the class [^\d\s(punctuation)] the unit is made of; the ASCII comma is in it
IsUnitChar(c) == ~IsDigit(c) /\ ~IsSpace(c) /\ c \notin {"fcomma", "period", "dun"}

\* {1,8} characters of the unit class from i on
RECURSIVE UnitRunAt(_, _, _)
UnitRunAt(s, i, left) ==
    IF left > 0 /\ i <= Len(s) /\ IsUnitChar(s[i]) THEN 1 + UnitRunAt(s, i + 1, left - 1)
    ELSE 0

\* where the unit would start once [\d,]+ has taken k of its run characters
UnitCandidate(s, g, k, run) == IF k = run THEN g + k + SpacesAt(s, g + k) ELSE g + k

\* backtracking of [\d,]+ : the largest k <= run at which a unit character follows
RECURSIVE UnitStartAt(_, _, _, _)
UnitStartAt(s, g, k, run) ==
    IF k = 0 THEN 0
    ELSE IF /\ UnitCandidate(s, g, k, run) <= Len(s)
            /\ IsUnitChar(s[UnitCandidate(s, g, k, run)])
         THEN UnitCandidate(s, g, k, run)
    ELSE UnitStartAt(s, g, k - 1, run)

UnitFrom(s, g) == IF g = 0 THEN 0 ELSE UnitStartAt(s, g, NumRunAt(s, g), NumRunAt(s, g))

\* (marker)\s*[\d,]+\s*(unit{1,8}) anchored at i: the position of the unit, 0 when none
UnitGroupAt(s, i) == UnitFrom(s, TotalGroupAt(s, i))

RECURSIVE UnitSearch(_, _)
UnitSearch(s, i) ==
    IF i > Len(s) THEN 0
    ELSE IF UnitGroupAt(s, i) > 0 THEN i
    ELSE UnitSearch(s, i + 1)

UnitGroup(s, u) == Strip(SubSeq(s, u, u + UnitRunAt(s, u, 8) - 1))

UnitAt(desc_text, m) ==
    IF desc_text = <<>> \/ m = 0 THEN <<>>
    ELSE UnitGroup(desc_text, UnitGroupAt(desc_text, m))

\* the short unit that follows the total in the description, "" when none
_fallback_extract_unit(desc_text) == UnitAt(desc_text, UnitSearch(desc_text, 1))

\* (https?://\S+): position of the first URL, 0 when none
RECURSIVE UrlSearch(_, _)
UrlSearch(s, i) ==
    IF i > Len(s) THEN 0
    ELSE IF s[i] \in UrlStarts THEN i
    ELSE UrlSearch(s, i + 1)

\* length of the run of non-whitespace characters that starts at i
RECURSIVE NonSpaceRunAt(_, _)
NonSpaceRunAt(s, i) ==
    IF i <= Len(s) /\ ~IsSpace(s[i]) THEN 1 + NonSpaceRunAt(s, i + 1) ELSE 0

UrlAt(ans_text, m) ==
    IF ans_text = <<>> \/ m = 0 THEN <<>>
    ELSE SubSeq(ans_text, m, m + NonSpaceRunAt(ans_text, m) - 1)

\* the first URL of a text, "" when none
_extract_first_url(ans_text) == UrlAt(ans_text, UrlSearch(ans_text, 1))

\* str.splitlines()
RECURSIVE SplitLines(_, _)
SplitLines(s, cur) ==
    IF s = <<>> THEN (IF cur = <<>> THEN <<>> ELSE <<cur>>)
    ELSE IF Head(s) = "nl" THEN <<cur>> \o SplitLines(Tail(s), <<>>)
    ELSE SplitLines(Tail(s), Append(cur, Head(s)))

\* [l.strip() for l in lines if l.strip()]
RECURSIVE StrippedNonEmpty(_)
StrippedNonEmpty(lines) ==
    IF lines = <<>> THEN <<>>
    ELSE IF Strip(Head(lines)) = <<>> THEN StrippedNonEmpty(Tail(lines))
    ELSE <<Strip(Head(lines))>> \o StrippedNonEmpty(Tail(lines))

\* the loop of _extract_source_text_and_url from line i on
RECURSIVE SourceScan(_, _, _, _)
SourceScan(lines, i, source_text, source_url) ==
    IF i > Len(lines) THEN <<source_text, source_url>>
    ELSE SourceScan(lines, i + 1,
                    IF Contains(lines[i], <<"SOURCE_LABEL">>) /\ i + 1 <= Len(lines)
                    THEN lines[i + 1] ELSE source_text,
                    IF source_url = <<>> THEN _extract_first_url(lines[i]) ELSE source_url)

\* (the line after the data-source label, the first URL) of an answer
_extract_source_text_and_url(ans_text) ==
    IF ans_text = <<>> THEN << <<>>, <<>> >>
    ELSE SourceScan(StrippedNonEmpty(SplitLines(ans_text, <<>>)), 1, <<>>, <<>>)

\* the three digits of r < 1000
ThreeDigits(r) == <<DigitChar(r \div 100), DigitChar((r \div 10) % 10), DigitChar(r % 10)>>

\* format(n, ",") for n >= 0
RECURSIVE GroupThousands(_)
GroupThousands(n) ==
    IF n < 1000 THEN IntToStr(n)
    ELSE GroupThousands(n \div 1000) \o <<",">> \o ThreeDigits(n % 1000)

\* f"{n:,}" for any integer
FormatInt(n) == IF n < 0 THEN <<"-">> \o GroupThousands(-n) ELSE GroupThousands(n)

\* round-half-even of a / b for a >= 0, b > 0
RoundHalfEven(a, b) ==
    IF 2 * (a % b) > b \/ (2 * (a % b) = b /\ (a \div b) % 2 = 1) THEN (a \div b) + 1
    ELSE a \div b

\* h hundredths printed with two decimals
Hundredths(h) == IntToStr(h \div 100) \o <<".", DigitChar((h \div 10) % 10), DigitChar(h % 10)>>

\* f"{x:.2f}" for the float x = num / den * 100 (den > 0): the exact quotient is
\* rounded to hundredths; a negative value keeps its sign even when it prints 0.00
FormatPct(num, den) ==
    (IF num < 0 THEN <<"-">> ELSE <<>>) \o Hundredths(RoundHalfEven(Abs(num) * 10000, den))

\* t without a trailing people-count suffix
DropSuffix(t) == IF EndsWith(t, <<"ren", "shu">>) THEN SubSeq(t, 1, Len(t) - 2) ELSE t

_topic_no_suffix(topic) == DropSuffix(Strip(OrEmpty(topic)))

\* one line of a resolved year
_format_multiyear_line(year, topic, total, unit) ==
    IF total.kind = "None"
    THEN IntToStr(year) \o <<"nian">> \o _topic_no_suffix(topic) \o <<"NO_TOTAL_FIGURE">>
    ELSE IntToStr(year) \o <<"nian">> \o _topic_no_suffix(topic) \o <<"zongji">>
             \o FormatInt(total.value) \o unit

\* sorted(years, reverse=True)
RECURSIVE InsertDesc(_, _)
InsertDesc(sorted, y) ==
    IF sorted = <<>> THEN <<y>>
    ELSE IF y > Head(sorted) THEN <<y>> \o sorted
    ELSE <<Head(sorted)>> \o InsertDesc(Tail(sorted), y)

RECURSIVE SortDesc(_, _)
SortDesc(done, todo) ==
    IF todo = <<>> THEN done ELSE SortDesc(InsertDesc(done, Head(todo)), Tail(todo))

Descending(years) == SortDesc(<<>>, years)

\* (unit_map.get(y) or "").strip()
UnitGet(unit_map, y) == IF y \in DOMAIN unit_map THEN Strip(unit_map[y]) ELSE <<>>

\* the unit of the latest year that has one
RECURSIVE PickUnitFrom(_, _)
PickUnitFrom(desc_years, unit_map) ==
    IF desc_years = <<>> THEN <<>>
    ELSE IF UnitGet(unit_map, Head(desc_years)) # <<>> THEN UnitGet(unit_map, Head(desc_years))
    ELSE PickUnitFrom(Tail(desc_years), unit_map)

_pick_summary_unit(years_sorted, unit_map) == PickUnitFrom(Descending(years_sorted), unit_map)

\* sum(series) for totals2 restricted to the years ys
RECURSIVE SumTotals(_, _)
SumTotals(ys, totals2) ==
    IF ys = <<>> THEN 0 ELSE totals2[Head(ys)] + SumTotals(Tail(ys), totals2)

\* base = first_v if first_v != 0 else 1
TrendBase(first_v) == IF first_v # 0 THEN first_v ELSE 1

\* abs(diff_pct) < t for diff_pct = diff / base * 100.0
TrendPctBelow(first_v, last_v, t) == Abs(last_v - first_v) * 100 < t * TrendBase(first_v)

\* the wording of the overall direction; "OVERALL_FLAT" is never printed itself
TrendOverall(first_v, last_v) ==
    IF TrendPctBelow(first_v, last_v, 1) THEN "OVERALL_FLAT"
    ELSE IF last_v - first_v > 0 /\ TrendPctBelow(first_v, last_v, 5)
         THEN "OVERALL_SLIGHT_GROWTH"
    ELSE IF last_v - first_v > 0 THEN "OVERALL_GROWTH"
    ELSE IF TrendPctBelow(first_v, last_v, 5) THEN "OVERALL_SLIGHT_DECLINE"
    ELSE "OVERALL_DECLINE"

SetMax(S) == CHOOSE v \in S : \A w \in S : v >= w

SetMin(S) == CHOOSE v \in S : \A w \in S : v <= w

\* vol_ratio = rng / avg against 0.03 and 0.08, for rng, the sum and the length n
VolatilityOf(rng, total, n) ==
    IF total = 0 \/ 100 * rng * n <= 3 * total THEN "STABLE"
    ELSE IF 100 * rng * n <= 8 * total THEN "MILD_FLUCTUATION"
    ELSE "CLEAR_FLUCTUATION"

\* the wording of the volatility of the series of the years ys
TrendVolatility(ys, totals2) ==
    VolatilityOf(SetMax({totals2[ys[i]] : i \in 1..Len(ys)})
                     - SetMin({totals2[ys[i]] : i \in 1..Len(ys)}),
                 SumTotals(ys, totals2), Max(1, Len(ys)))

\* the remark on the last year against the year before it
RecentPhrase(last_y, recent_diff) ==
    IntToStr(last_y) \o <<"nian">> \o
        (IF recent_diff > 0 THEN <<"RECENT_UP">>
         ELSE IF recent_diff < 0 THEN <<"RECENT_DOWN">>
         ELSE <<"RECENT_FLAT">>)

TrendPeriod(first_y, last_y) ==
    IntToStr(first_y) \o <<"endash">> \o IntToStr(last_y) \o <<"nian">>

TrendMain(period, overall, volatility) ==
    IF overall = "OVERALL_FLAT" THEN period \o <<"OVERALL", volatility>>
    ELSE IF volatility = "STABLE" THEN period \o <<overall, "fcomma", "TREND", volatility>>
    ELSE period \o <<"OVERALL", volatility>>

UnitHint(unit) == IF unit # <<>> THEN <<"UNIT_OPEN">> \o unit \o <<"RPAREN">> ELSE <<>>

\* the sentence for the sorted years ys (at least two) that have a total
TrendOf(ys, totals2, unit) ==
    <<"TREND_HEAD", "nl">>
        \o TrendMain(TrendPeriod(ys[1], ys[Len(ys)]),
                     TrendOverall(totals2[ys[1]], totals2[ys[Len(ys)]]),
                     TrendVolatility(ys, totals2))
        \o <<"fcomma">>
        \o RecentPhrase(ys[Len(ys)], totals2[ys[Len(ys)]] - totals2[ys[Len(ys) - 1]])
        \o <<"period">> \o UnitHint(unit)

TrendFor(ys, totals2, unit) == IF Len(ys) < 2 THEN <<>> ELSE TrendOf(ys, totals2, unit)

\* the one-sentence trend summary, "" with fewer than two totals
_trend_sentence(years2, totals2, unit) ==
    TrendFor(SortedSeq({years2[i] : i \in 1..Len(years2)} \cap DOMAIN totals2), totals2, unit)

\* sign = "+" if diff >= 0 else ""
SignOf(diff) == IF diff >= 0 THEN <<"+">> ELSE <<>>

\* pct = (diff / v1 * 100) if v1 != 0 else 0.0, printed with two decimals
PctOf(v1, v2) == IF v1 # 0 THEN FormatPct(v2 - v1, v1) ELSE <<"0", ".", "0", "0">>

\* one line of the year-over-year difference summary
DiffLine(y1, y2, v1, v2, summary_unit) ==
    IntToStr(y2) \o <<"nian", "jiao">> \o IntToStr(y1) \o <<"nian", " ">>
        \o SignOf(v2 - v1) \o FormatInt(v2 - v1) \o summary_unit
        \o <<"LPAREN">> \o SignOf(v2 - v1) \o PctOf(v1, v2) \o <<"%", "RPAREN">>

DiffLines(ys, totals, unit) ==
    [i \in 1..(Len(ys) - 1) |->
        DiffLine(ys[i], ys[i + 1], totals[ys[i]], totals[ys[i + 1]], unit)]

DiffSummaryOf(ys, totals, unit_map) ==
    JoinWith(<< <<"DIFF_HEAD">> >> \o DiffLines(ys, totals, _pick_summary_unit(ys, unit_map)),
             <<"nl">>)

\* the difference summary over the adjacent pairs of the years that have a total
DiffSummary(totals, unit_map) == DiffSummaryOf(SortedSeq(DOMAIN totals), totals, unit_map)

\* the state of the loop over the years of _format_multiyear_reply
LoopStart ==
    [lines_out |-> <<>>, missing |-> <<>>, totals |-> <<>>, unit_map |-> <<>>,
     source_text |-> <<>>, source_url |-> <<>>, raised |-> FALSE]

\* f[k] = v on a dict held as a function
Put(f, k, v) == [x \in (DOMAIN f) \cup {k} |-> IF x = k THEN v ELSE f[x]]

\* st, su = _extract_source_text_and_url(...)
SetSource(acc, both) == [acc EXCEPT !.source_text = both[1], !.source_url = both[2]]

\* the source of the reply: taken from the first resolved entries that give one
StepSource(acc, ans) ==
    IF acc.source_url = <<>> /\ acc.source_text = <<>>
    THEN SetSource(acc, _extract_source_text_and_url(ans))
    ELSE IF acc.source_url = <<>> THEN [acc EXCEPT !.source_url = _extract_first_url(ans)]
    ELSE acc

\* unit = e.unit.strip() or _fallback_extract_unit(e.description)
UnitOr(unit, fallback) == IF unit # <<>> THEN unit ELSE fallback

UnitOfEntry(e) == UnitOr(Strip(e.unit), _fallback_extract_unit(e.description))

\* the rest of the iteration once the total is extracted (or int() has raised)
StepTotal(acc, y, base_topic, total, unit) ==
    IF total.kind = "ValueError" THEN [acc EXCEPT !.raised = TRUE]
    ELSE [acc EXCEPT
            !.unit_map  = Put(@, y, unit),
            !.totals    = IF total.kind = "int" THEN Put(@, y, total.value) ELSE @,
            !.lines_out = Append(@, _format_multiyear_line(y, base_topic, total, unit))]

StepEntry(acc, y, e, base_topic) ==
    IF e = NoEntry THEN [acc EXCEPT !.missing = Append(@, y)]
    ELSE StepTotal(StepSource(acc, _format_answer(e)), y, base_topic,
                   _extract_total_value(e.description), UnitOfEntry(e))

\* one iteration of the loop, for year y
LoopStep(acc, y, year_to_entry, base_topic) ==
    IF acc.raised THEN acc
    ELSE StepEntry(acc, y, IF y \in DOMAIN year_to_entry THEN year_to_entry[y] ELSE NoEntry,
                   base_topic)

RECURSIVE Loop(_, _, _, _)
Loop(acc, desc_years, year_to_entry, base_topic) ==
    IF desc_years = <<>> THEN acc
    ELSE Loop(LoopStep(acc, Head(desc_years), year_to_entry, base_topic),
              Tail(desc_years), year_to_entry, base_topic)

YearLabels(desc_years) == [i \in 1..Len(desc_years) |-> IntToStr(desc_years[i]) \o <<"nian">>]

\* the "no data for these years" block
MissingBlock(missing) ==
    <<"MISSING_YEARS_OPEN">> \o JoinWith(YearLabels(Descending(missing)), <<"dun">>)
        \o <<"RPAREN">>

\* a reply, or the exception that ended the call
Returned(text) == [exc |-> "None", text |-> text]

Raised(exc) == [exc |-> exc, text |-> <<>>]

\* body = "\n".join(lines_out) if lines_out else the all-missing line
LinesBody(acc) ==
    IF acc.lines_out # <<>> THEN JoinWith(acc.lines_out, <<"nl">>) ELSE ALL_MISSING

WithMissing(acc, body) ==
    IF acc.missing # <<>> THEN body \o <<"nl", "nl">> \o MissingBlock(acc.missing) ELSE body

WithSource(acc, body) ==
    IF acc.source_text # <<>> \/ acc.source_url # <<>>
    THEN body \o <<"nl", "nl", "SOURCE_HEAD">>
            \o (IF acc.source_text # <<>> THEN <<"nl">> \o acc.source_text ELSE <<>>)
            \o (IF acc.source_url # <<>> THEN <<"nl">> \o acc.source_url ELSE <<>>)
    ELSE body

WithTrend(body, trend) == IF trend # <<>> THEN body \o <<"nl", "nl">> \o trend ELSE body

WithDiff(acc, body) == body \o <<"nl", "nl">> \o DiffSummary(acc.totals, acc.unit_map)

WithSummary(acc, years, show_summary, body) ==
    IF show_summary /\ Cardinality(DOMAIN acc.totals) >= 2
    THEN WithDiff(acc, WithTrend(body,
             _trend_sentence(years, acc.totals, _pick_summary_unit(years, acc.unit_map))))
    ELSE body

\* what _format_multiyear_reply does once its loop has ended in acc
RenderLoop(acc, years, show_summary) ==
    IF acc.raised THEN Raised("ValueError")
    ELSE Returned(WithSummary(acc, years, show_summary,
                              WithSource(acc, WithMissing(acc, LinesBody(acc)))))

_format_multiyear_reply(years, year_to_entry, base_topic, show_summary) ==
    IF years = <<>> THEN Returned(DEFAULT_REPLY)
    ELSE RenderLoop(Loop(LoopStart, Descending(years), year_to_entry, base_topic),
                    years, show_summary)

----------------------------------------------------------------------------
(* Header and footer                                                        *)

\* _is_success_reply for the stripped reply r
IsSuccess(r) ==
    /\ r # <<>>
    /\ r # DEFAULT_REPLY
    /\ ~StartsWith(r, TOO_SHORT_PREFIX)
    /\ ~StartsWith(r, ADD_YEAR_PREFIX)
    /\ ~StartsWith(r, SUGGEST_PREFIX)
    /\ ~Contains(r, ALL_MISSING)

\* whether the rendered reply reads as "data found"
_is_success_reply(reply) == IsSuccess(Strip(OrEmpty(reply)))

PrependTo(r) ==
    IF r = <<>> THEN r
    ELSE IF StartsWith(r, RESULT_HEADER) THEN r
    ELSE IF _is_success_reply(r) THEN RESULT_HEADER \o <<"nl">> \o r
    ELSE r

_prepend_result_header(reply) == PrependTo(Strip(OrEmpty(reply)))

FooterFor(r) == IF _is_success_reply(r) THEN SURVEY_FOOTER_SUCCESS ELSE SURVEY_FOOTER_FALLBACK

AppendTo(r) ==
    IF Contains(r, SURVEY_URL) THEN r
    ELSE IF r # <<>> THEN RStrip(r) \o <<"nl">> \o FooterFor(r)
    ELSE FooterFor(r)

_append_survey_footer(reply) == AppendTo(RStrip(OrEmpty(reply)))

----------------------------------------------------------------------------
(* Entry point                                                              *)

\* year_to_entry of build_reply: the entry of "<y>nian<base_topic>" for each year
YearToEntry(exact, entries, years, base_topic) ==
    [y \in {years[i] : i \in 1..Len(years)} |->
        _get_entry_for_year_query(exact, entries, IntToStr(y) \o <<"nian">> \o base_topic)]

\* header and footer around a reply; an exception passes through
Finish(out) ==
    IF out.exc # "None" THEN out
    ELSE Returned(_append_survey_footer(_prepend_result_header(out.text)))

\* the multi-year branch of build_reply
MultiYearOf(exact, entries, text, years, base_topic) ==
    _format_multiyear_reply(years, YearToEntry(exact, entries, years, base_topic),
                            base_topic, _wants_summary(text))

BuildReplyYears(exact, entries, text, years) ==
    IF Len(years) >= 2
    THEN Finish(MultiYearOf(exact, entries, text, years,
                            strip_year_expression(_strip_analysis_keywords(text))))
    ELSE Finish(Returned(build_reply_single_year(exact, entries, text)))

BuildReplyOf(exact, entries, text) ==
    IF text = <<>> THEN Returned(_append_survey_footer(DEFAULT_REPLY))
    ELSE BuildReplyYears(exact, entries, text, extract_years(text))

build_reply(exact, entries, user) == BuildReplyOf(exact, entries, Strip(OrEmpty(user)))

----------------------------------------------------------------------------
(* Inputs: the rows a training file can hold and the texts a user can send  *)

\* bound: rows of the training file
MaxRows == 2

\* bound: length of the strings the coverage ratio is computed on
MaxLen == 3

Y113 == <<"1", "1", "3", "nian">>

Y112 == <<"1", "1", "2", "nian">>

ABCD == <<"a", "b", "c", "d">>

Row(kw, desc, unit, src) ==
    [keywords |-> kw, description |-> desc, unit |-> unit, source_url |-> src]

\* candidate rows of training.xlsx (cells as read by pandas with dtype=str, fillna(""))
Rows ==
    { \* total 1,000 with a unit in the text, a data-source line and a URL
      Row(Y113 \o ABCD,
          <<"zongji", "1", ",", "0", "0", "0", "u", "nl", "SOURCE_LABEL", "nl", "s">>,
          <<>>, <<"http">>),
      \* total 800, unit column filled
      Row(Y112 \o ABCD, <<"t", "heji", " ", "8", "0", "0">>, <<"u", " ">>, <<>>),
      \* total 0
      Row(Y112 \o ABCD, <<"zongji", "0", "u">>, <<>>, <<"http">>),
      \* a total marker followed only by a comma
      Row(Y113 \o ABCD, <<"t", "zongshu", ",">>, <<>>, <<>>),
      \* no total marker; the keyword is written with a space and the long year word
      Row(<<"1", "1", "3", " ", "nian", "du">> \o ABCD \o <<" ">>, <<"t", "t">>, <<>>, <<>>),
      \* a keyword shorter than MIN_QUERY_LEN
      Row(Y113 \o <<"a", "b">>, <<"zongji", "5", "u">>, <<>>, <<>>),
      \* a keyword without a year
      Row(ABCD \o <<"e", "f", "g", "h">>, <<"t">>, <<>>, <<>>),
      \* a description that begins like the too-short guidance
      Row(Y113 \o ABCD, TOO_SHORT_PREFIX \o <<"t">>, <<>>, <<>>),
      \* a source URL that is the survey URL
      Row(Y112 \o ABCD, <<"zongji", "8", "0", "0">>, <<>>, SURVEY_URL),
      \* totals of year 112 close to the 1,000 of year 113: 2% below, 2% above,
      \* equal, and 4% below
      Row(Y112 \o ABCD, <<"zongji", "9", "8", "0">>, <<>>, <<>>),
      Row(Y112 \o ABCD, <<"zongji", "1", ",", "0", "2", "0">>, <<>>, <<>>),
      Row(Y112 \o ABCD, <<"zongji", "1", "0", "0", "0">>, <<>>, <<>>),
      Row(Y112 \o ABCD, <<"zongji", "9", "6", "0">>, <<>>, <<>>),
      \* a row without description: dropped by the loader
      Row(Y113 \o ABCD, <<" ">>, <<>>, <<"http">>) }

RECURSIVE SeqsUpTo(_, _)
SeqsUpTo(S, n) ==
    IF n = 0 THEN {<<>>}
    ELSE LET shorter == SeqsUpTo(S, n - 1)
         IN  shorter \cup {Append(s, x) : s \in shorter, x \in S}

\* the training files: up to MaxRows rows, in any order
TrainingFiles == SeqsUpTo(Rows, MaxRows)

ANALYSIS == <<"bi", "jiao">>

\* the change cue of a comparison query: "jiao shang yi nian du bian dong"
CHANGE_CUE == <<"jiao", "shang", "yi", "nian", "du", "bian", "dong">>

\* the texts LINE delivers
Texts ==
    { Y113 \o ABCD,
      Y112 \o ABCD,
      <<"1", "1", "3", " ", "nian", "du", " ">> \o ABCD \o <<",">>,
      Y113 \o <<"a", "b">>,
      ABCD,
      ABCD \o <<"e", "f", "g", "h">>,
      <<"x", "y">>,
      Y113 \o <<"a", "b", "c", "y">>,
      Y113 \o <<"a", "b", "x", "y">>,
      Y113 \o <<"w", "x", "y", "z">>,
      <<"1", "1", "4", "nian">> \o ABCD,
      <<"1", "1", "2", "-">> \o Y113 \o ABCD,
      <<"1", "1", "2", "-">> \o Y113 \o ABCD \o ANALYSIS,
      <<"1", "1", "2", "-">> \o Y113 \o ABCD \o <<"zeng", "jian">>,
      <<"1", "1", "3", " ", "zhi", "1", "1", "2">> \o ABCD \o ANALYSIS,
      <<"1", "1", "1", "-">> \o Y113 \o ABCD \o ANALYSIS,
      <<"1", "0", "0", "-">> \o Y113 \o ABCD,
      <<"1", "1", "2", ",", "1", "1", "3", "a">>,
      Y112 \o <<"1", "1", "3">>,
      Y113 \o ABCD \o CHANGE_CUE,
      <<" ", "fw">>,
      <<>> }

----------------------------------------------------------------------------
(* The program as a state machine                                           *)

\* no webhook event is pending
NoEvent == NoneText

\* nothing has been replied / no coverage ratio has been computed
NoReply == NoneText

NoRatio == <<0, 0>>

\* state after the module is imported: _load_training() has run on the file
Init ==
    /\ \E rows \in TrainingFiles : _ENTRIES = LoadEntries(rows)
    /\ _EXACT_MAP = ExactMapOf(_ENTRIES)
    /\ event = NoEvent
    /\ user_text = NoneText
    /\ reply_text = NoReply
    /\ error = "None"
    /\ keyword_norm = <<>>
    /\ user_norm = <<>>
    /\ ratio = NoRatio

\* POST /callback: LINE delivers a text message event
callback(text) ==
    /\ event = NoEvent
    /\ event' = text
    /\ user_text' = NoneText
    /\ reply_text' = NoReply
    /\ error' = "None"
    /\ UNCHANGED <<_ENTRIES, _EXACT_MAP, keyword_norm, user_norm, ratio>>

\* reply_message(reply_text) once build_reply has returned; nothing is sent when it raised
Respond(text, out) ==
    /\ user_text' = text
    /\ reply_text' = IF out.exc = "None" THEN out.text ELSE NoReply
    /\ error' = out.exc

\* handle_message: strip the text, build the reply, send it (or fail with the exception)
handle_message ==
    /\ event # NoEvent
    /\ Respond(Strip(event), build_reply(_EXACT_MAP, _ENTRIES, Strip(event)))
    /\ event' = NoEvent
    /\ UNCHANGED <<_ENTRIES, _EXACT_MAP, keyword_norm, user_norm, ratio>>

Next ==
    \/ \E text \in Texts : callback(text)
    \/ handle_message

Spec == Init /\ [][Next]_vars

----------------------------------------------------------------------------
(* _coverage_ratio as a pure function: the arguments are drawn at the start *)
(* and the call is one step                                                 *)

CoverageChars == {"a", "b", "nian"}

CoverageStrings == SeqsUpTo(CoverageChars, MaxLen)

InitCoverage ==
    /\ _ENTRIES = <<>>
    /\ _EXACT_MAP = ExactMapOf(_ENTRIES)
    /\ event = NoEvent
    /\ user_text = NoneText
    /\ reply_text = NoReply
    /\ error = "None"
    /\ keyword_norm \in CoverageStrings
    /\ user_norm \in CoverageStrings
    /\ ratio = NoRatio

\* r = _coverage_ratio(e.keyword_norm, user_norm)
coverage_call ==
    /\ ratio = NoRatio
    /\ ratio' = _coverage_ratio(keyword_norm, user_norm)
    /\ UNCHANGED <<_ENTRIES, _EXACT_MAP, event, user_text, reply_text, error,
                   keyword_norm, user_norm>>

NextCoverage == coverage_call

SpecCoverage == InitCoverage /\ [][NextCoverage]_vars

----------------------------------------------------------------------------
(* Terms of the properties                                                  *)

\* the handler has run to its end for user_text
Replied == user_text # NoneText

\* a reply was sent
Sent == Replied /\ error = "None"

\* the reply wrapped as a found answer / as a fallback
AsSuccess(body) == RESULT_HEADER \o <<"nl">> \o body \o <<"nl">> \o SURVEY_FOOTER_SUCCESS

AsFallback(body) == body \o <<"nl">> \o SURVEY_FOOTER_FALLBACK

\* the years, the topic and the per-year entries of the multi-year path for user_text
QueryYears == extract_years(user_text)

QueryTopic == strip_year_expression(_strip_analysis_keywords(user_text))

QueryEntry(y) ==
    _get_entry_for_year_query(_EXACT_MAP, _ENTRIES, IntToStr(y) \o <<"nian">> \o QueryTopic)

\* the return statement the single-year path leaves by for user_text
QueryBranch ==
    SingleYearBranch(user_text, _normalize(user_text), _extract_year(user_text),
                     _rank_matches_noyear(_ENTRIES, user_text),
                     _match_by_exact(_EXACT_MAP, user_text),
                     _rank_matches(_ENTRIES, user_text, TRUE))

\* the first year range written in the text: <<lo, hi>>, <<0, -1>> when there is none
RangeOf(s, m) ==
    IF m = 0 THEN <<0, -1>>
    ELSE <<Min(ParseInt(SubSeq(s, m, m + 2)),
               ParseInt(SubSeq(s, RangeSecondAt(s, m), RangeSecondAt(s, m) + 2))),
           Max(ParseInt(SubSeq(s, m, m + 2)),
               ParseInt(SubSeq(s, RangeSecondAt(s, m), RangeSecondAt(s, m) + 2)))>>

QueryRange == RangeOf(user_text, RangeSearch(Search("RANGE_DASH", user_text),
                                             Search("RANGE_WORD", user_text)))

QuerySpan == QueryRange[2] - QueryRange[1] + 1

\* the lines of the reply
ReplyLines == SplitLines(reply_text, <<>>)

----------------------------------------------------------------------------
(* C1 *)

\* C1: whenever the normalized query equals the normalized keyword of a loaded
\* entry, the reply is that entry's formatted description wrapped only in the
\* result header and the success survey footer
C1_ExactMatchReturnsEntry ==
    Replied =>
        \A i \in 1..Len(_ENTRIES) :
            _normalize(user_text) = _ENTRIES[i].keyword_norm =>
                /\ error = "None"
                /\ reply_text = AsSuccess(_format_answer(_ENTRIES[i]))

----------------------------------------------------------------------------
(* C2 *)

\* C2: every query whose normalized length is below MIN_QUERY_LEN is answered
\* with the "enter more complete keywords" guidance, on every path
C2_ShortQueryGetsGuidance ==
    Replied /\ Len(_normalize(user_text)) < MIN_QUERY_LEN =>
        /\ error = "None"
        /\ reply_text = AsFallback(TOO_SHORT_REPLY)

----------------------------------------------------------------------------
(* C3 *)

\* C3: a query with a year range of more than MAX_YEAR_SPAN years is answered
\* with guidance, never with the data of one year read out of the range
C3_LongRangeGetsGuidance ==
    Replied /\ QuerySpan > MAX_YEAR_SPAN =>
        /\ error = "None"
        /\ ~StartsWith(reply_text, RESULT_HEADER)
        /\ \A i \in 1..Len(_ENTRIES) :
               _ENTRIES[i].description = <<>>
               \/ ~Contains(reply_text, _ENTRIES[i].description)

----------------------------------------------------------------------------
(* C4 *)

\* C4: build_reply returns a reply for every query and every loaded index; no
\* exception leaves it
C4_NeverRaises == Replied => error = "None"

----------------------------------------------------------------------------
(* C5 *)

\* the year has an entry with a numeric total / that total
QueryNumeric(y) ==
    /\ QueryEntry(y) # NoEntry
    /\ _extract_total_value(QueryEntry(y).description).kind = "int"

QueryValue(y) == _extract_total_value(QueryEntry(y).description).value

\* the years of the query that have a numeric total
NumericYears == {y \in {QueryYears[i] : i \in 1..Len(QueryYears)} : QueryNumeric(y)}

\* y1 < y2 are neighbours among the years with a total
AdjacentYears(y1, y2) ==
    /\ y1 \in NumericYears
    /\ y2 \in NumericYears
    /\ y1 < y2
    /\ ~\E y \in NumericYears : y1 < y /\ y < y2

\* the start of the difference line of the pair (y1, y2)
PairPrefix(y1, y2) == IntToStr(y2) \o <<"nian", "jiao">> \o IntToStr(y1) \o <<"nian", " ">>

\* what the difference line of a pair with a non-zero earlier total has to hold
PairFigures(v1, v2) ==
    SignOf(v2 - v1) \o FormatInt(v2 - v1)

PairPercent(v1, v2) ==
    <<"LPAREN">> \o SignOf(v2 - v1) \o FormatPct(v2 - v1, v1) \o <<"%", "RPAREN">>

\* C5: in the difference summary of a multi-year reply, a pair whose earlier
\* total is 0 is never given the percentage 0.00%, and a pair whose earlier
\* total is not 0 is given diff = later - earlier and pct = diff / earlier * 100
C5_ZeroBaseGrowthUndefined ==
    Sent /\ Len(QueryYears) >= 2 /\ _wants_summary(user_text) =>
        \A y1, y2 \in NumericYears :
            AdjacentYears(y1, y2) =>
                \E i \in 1..Len(ReplyLines) :
                    /\ StartsWith(ReplyLines[i], PairPrefix(y1, y2))
                    /\ IF QueryValue(y1) = 0
                       THEN ~Contains(ReplyLines[i],
                                      <<"LPAREN", "+", "0", ".", "0", "0", "%", "RPAREN">>)
                       ELSE /\ Contains(ReplyLines[i],
                                        PairFigures(QueryValue(y1), QueryValue(y2)))
                            /\ Contains(ReplyLines[i],
                                        PairPercent(QueryValue(y1), QueryValue(y2)))

----------------------------------------------------------------------------
(* C6 *)

\* the query names one year and asks for the change against the year before
ComparisonQuery ==
    /\ Len(QueryYears) < 2
    /\ _extract_year(user_text) # NoYear
    /\ Contains(user_text, CHANGE_CUE)

CueYear == ParseInt(_extract_year(user_text))

CueTopic == strip_year_expression(Replace(user_text, CHANGE_CUE, <<>>))

CueEntry(y) ==
    _get_entry_for_year_query(_EXACT_MAP, _ENTRIES, IntToStr(y) \o <<"nian">> \o CueTopic)

CueNumeric(y) ==
    /\ CueEntry(y) # NoEntry
    /\ _extract_total_value(CueEntry(y).description).kind = "int"

CueValue(y) == _extract_total_value(CueEntry(y).description).value

\* C6: a query for one year Y with the change cue, when years Y and Y-1 of the
\* topic both have a numeric total, is answered with diff = value(Y) - value(Y-1)
\* and the growth percentage diff / value(Y-1) * 100
C6_ComparisonReportsChange ==
    Replied /\ ComparisonQuery =>
        (CueNumeric(CueYear) /\ CueNumeric(CueYear - 1) /\ CueValue(CueYear - 1) # 0 =>
            /\ error = "None"
            /\ Contains(reply_text, PairFigures(CueValue(CueYear - 1), CueValue(CueYear)))
            /\ Contains(reply_text,
                        SignOf(CueValue(CueYear) - CueValue(CueYear - 1))
                            \o FormatPct(CueValue(CueYear) - CueValue(CueYear - 1),
                                         CueValue(CueYear - 1)) \o <<"%">>))

----------------------------------------------------------------------------
(* C7 *)

\* the number of characters of k, counted with multiplicity, that q also holds:
\* the i-th character of k counts when q holds at least as many of it as k[1..i]
Matched(k, q) ==
    Cardinality({i \in 1..Len(k) :
        Cardinality({j \in 1..i : k[j] = k[i]}) <= Cardinality({j \in 1..Len(q) : q[j] = k[i]})})

\* q without its i-th character
Without(q, i) == SubSeq(q, 1, i - 1) \o SubSeq(q, i + 1, Len(q))

\* the call has been made
Scored == ratio # NoRatio

\* C7: _coverage_ratio(k, q) is the multiset overlap of k and q divided by
\* len(k), lies in [0, 1], is 0 for empty k, does not decrease when a character
\* is appended to q and does not increase when a character is deleted from q
C7_CoverageRatio ==
    Scored =>
        /\ ratio[2] > 0
        /\ ratio[1] * Max(1, Len(keyword_norm)) = Matched(keyword_norm, user_norm) * ratio[2]
        /\ 0 <= ratio[1] /\ ratio[1] <= ratio[2]
        /\ keyword_norm = <<>> => ratio[1] = 0
        /\ \A c \in CoverageChars \cup {"z"} :
               ~RatioLess(_coverage_ratio(keyword_norm, Append(user_norm, c)), ratio)
        /\ \A i \in 1..Len(user_norm) :
               ~RatioLess(ratio, _coverage_ratio(keyword_norm, Without(user_norm, i)))

\* a partial overlap was scored: some, not all, of a repeated-character keyword
C7_Witness ==
    /\ Scored
    /\ Len(keyword_norm) = MaxLen
    /\ Len(user_norm) >= 2
    /\ 0 < ratio[1] /\ ratio[1] < ratio[2]
    /\ \E i, j \in 1..Len(keyword_norm) : i # j /\ keyword_norm[i] = keyword_norm[j]

----------------------------------------------------------------------------
(* C8 *)

\* the query holds a year range of 2..MAX_YEAR_SPAN years
RangeQuery == 2 <= QuerySpan /\ QuerySpan <= MAX_YEAR_SPAN

\* the result lines of year y in the reply
ResultLines(y) ==
    {i \in 1..Len(ReplyLines) :
        \/ StartsWith(ReplyLines[i],
                      IntToStr(y) \o <<"nian">> \o _topic_no_suffix(QueryTopic) \o <<"zongji">>)
        \/ StartsWith(ReplyLines[i],
                      IntToStr(y) \o <<"nian">> \o _topic_no_suffix(QueryTopic)
                          \o <<"NO_TOTAL_FIGURE">>)}

\* year y is named in the block of the years without data
InMissing(y) ==
    \E i \in 1..Len(ReplyLines) :
        /\ StartsWith(ReplyLines[i], <<"MISSING_YEARS_OPEN">>)
        /\ Contains(ReplyLines[i], IntToStr(y) \o <<"nian">>)

\* year y is accounted for exactly once
Accounted(y) ==
    IF QueryEntry(y) # NoEntry
    THEN Cardinality(ResultLines(y)) = 1 /\ ~InMissing(y)
    ELSE Cardinality(ResultLines(y)) = 0 /\ InMissing(y)

\* C8: the reply to a query with a year range of 2..MAX_YEAR_SPAN years holds
\* exactly one result line for each year of the range that resolves to an entry
\* and names every other year of the range in the block of missing years
C8_EveryYearAccounted ==
    Replied /\ RangeQuery =>
        /\ error = "None"
        /\ \A y \in QueryRange[1]..QueryRange[2] : Accounted(y)

----------------------------------------------------------------------------
(* C9 *)

\* a query of the single-year path that names a year, is long enough and
\* matches no keyword exactly
YearQueryNoExact ==
    /\ Len(QueryYears) < 2
    /\ _extract_year(user_text) # NoYear
    /\ Len(_normalize(user_text)) >= MIN_QUERY_LEN
    /\ _normalize(user_text) \notin DOMAIN _EXACT_MAP

\* entry i covers the query at threshold t
Covers(i, t) ==
    RatioAtLeast(_coverage_ratio(_ENTRIES[i].keyword_norm, _normalize(user_text)), t)

\* no entry of the query's year reaches SUGGEST_THRESHOLD
NoneOfYearCovers ==
    \A i \in 1..Len(_ENTRIES) :
        _ENTRIES[i].year = _extract_year(user_text) => ~Covers(i, SUGGEST_THRESHOLD)

\* C9: a single-year query with a year Y, of at least MIN_QUERY_LEN characters
\* and without an exact match, for which no entry of year Y reaches
\* SUGGEST_THRESHOLD is answered with the apology DEFAULT_REPLY (and the fallback
\* footer), whatever entries of other years would score
C9_YearFilterBeforeScoring ==
    Replied /\ YearQueryNoExact /\ NoneOfYearCovers =>
        /\ error = "None"
        /\ reply_text = AsFallback(DEFAULT_REPLY)

\* the apology was given although an entry of another year covers the query at
\* COVERAGE_THRESHOLD
C9_Witness ==
    /\ Replied
    /\ YearQueryNoExact
    /\ NoneOfYearCovers
    /\ \E i \in 1..Len(_ENTRIES) :
           /\ _ENTRIES[i].year # NoYear
           /\ _ENTRIES[i].year # _extract_year(user_text)
           /\ Covers(i, COVERAGE_THRESHOLD)
    /\ reply_text = AsFallback(DEFAULT_REPLY)

----------------------------------------------------------------------------
(* C10 *)

\* the outcome is a resolved data answer
DataAnswer ==
    IF Len(QueryYears) >= 2
    THEN \E i \in 1..Len(QueryYears) : QueryEntry(QueryYears[i]) # NoEntry
    ELSE QueryBranch \in {"exact", "confident"}

HasHeader == StartsWith(reply_text, RESULT_HEADER \o <<"nl">>)

\* the survey footers the reply holds
Footers ==
    {i \in 1..Len(reply_text) : reply_text[i] \in {"SURVEY_SUCCESS_HEAD", "SURVEY_FALLBACK_HEAD"}}

\* C10: the result header is prepended exactly when the outcome is a resolved
\* data answer; the survey footer is appended exactly once, and it is the
\* success footer exactly when the header was added
C10_HeaderAndFooter ==
    Sent =>
        /\ HasHeader <=> DataAnswer
        /\ Cardinality(Footers) = 1
        /\ EndsWith(reply_text,
                    <<"nl">> \o (IF HasHeader THEN SURVEY_FOOTER_SUCCESS
                                 ELSE SURVEY_FOOTER_FALLBACK))

----------------------------------------------------------------------------
(* C11 *)

\* the first and the last year of the query that have a total
FirstYear == SetMin(NumericYears)

LastYear == SetMax(NumericYears)

\* the reply holds a trend summary over a series that starts with a non-zero total
TrendShown ==
    /\ Sent
    /\ Len(QueryYears) >= 2
    /\ _wants_summary(user_text)
    /\ Cardinality(NumericYears) >= 2
    /\ Contains(reply_text, <<"TREND_HEAD">>)
    /\ QueryValue(FirstYear) # 0

\* the wording of the direction from first to last: flat below 1%, slight below
\* 5%, full from 5% on, growth or decline by the sign of the difference
DirectionOf(first_v, last_v) ==
    IF Abs(last_v - first_v) * 100 < first_v THEN "OVERALL_FLAT"
    ELSE IF Abs(last_v - first_v) * 100 < 5 * first_v
         THEN (IF last_v > first_v THEN "OVERALL_SLIGHT_GROWTH" ELSE "OVERALL_SLIGHT_DECLINE")
    ELSE (IF last_v > first_v THEN "OVERALL_GROWTH" ELSE "OVERALL_DECLINE")

\* the four wordings of growth and decline
DirectionWordings ==
    {"OVERALL_SLIGHT_GROWTH", "OVERALL_GROWTH", "OVERALL_SLIGHT_DECLINE", "OVERALL_DECLINE"}

\* the wordings of growth and decline the reply holds
WordingsShown == {w \in DirectionWordings : Contains(reply_text, <<w>>)}

\* C11: the trend summary of a multi-year reply states the direction from the
\* first to the last year with a total: no growth or decline wording for a
\* change below 1%, otherwise exactly the slight wording (change below 5%) or the
\* full wording (5% or more) of growth or decline, by the sign of the difference
C11_TrendStatesDirection ==
    TrendShown =>
        WordingsShown =
            IF DirectionOf(QueryValue(FirstYear), QueryValue(LastYear)) = "OVERALL_FLAT"
            THEN {}
            ELSE {DirectionOf(QueryValue(FirstYear), QueryValue(LastYear))}

\* a trend summary that does state a direction: the slight growth of a series
\* that rises by less than 5%
C11_Witness ==
    /\ TrendShown
    /\ DirectionOf(QueryValue(FirstYear), QueryValue(LastYear)) = "OVERALL_SLIGHT_GROWTH"
    /\ WordingsShown = {"OVERALL_SLIGHT_GROWTH"}

====
